---- MODULE Spec2Model ----
(***************************************************************************)
(* TempoTokens/utils/dataset.py: frame-window selection, audio alignment   *)
(* and the source enumerators of the dataset adapters.                     *)
(*                                                                         *)
(* Conventions.  Python lists and numpy arrays are TLA+ sequences (index 1 *)
(* is Python index 0).  A video reader `vr` is the record [len, fps100]:   *)
(* len(vr) and vr.get_avg_fps() in hundredths of a frame per second.  A    *)
(* loaded wave file is [W, sr]: samples per channel and sample rate.       *)
(* Float expressions of the source are computed in exact integer           *)
(* arithmetic: int(a/b*c) is (a*c) \div b and round(x + 1e-5) is           *)
(* round-half-up, which agree with IEEE doubles on every input used here.  *)
(***************************************************************************)
EXTENDS Integers, Sequences, FiniteSets, TLC

VARIABLES
    sel,      \* harness of the pure selector / aligner functions
    folder,   \* a VideoFolderDataset after construction, and its __getitem__
    jsonDs,   \* a VideoJsonDataset and the manifest it is built from
    single,   \* a SingleVideoDataset
    image,    \* an ImageDataset, its directory, and calls of get_text_prompt
    catalog   \* the constructor of VideoFolderDataset and what it reads

vars == <<sel, folder, jsonDs, single, image, catalog>>

(* ------------------------------ bounds -------------------------------- *)

\* longest video (frames) the sampler harness enumerates
MaxLen == 24
\* largest requested frame count
MaxFrames == 4
\* largest frame step of the fixed-offset selector
MaxStep == 3
\* one long video (frames) beside the short ones
LongLen == 400

\* native frame rates, in hundredths of a frame per second
NativeFps100 == {100, 800, 2997, 3000}
\* target frame rates (self.fps)
TargetFps == {8, 10}
\* wave files: samples per channel and sample rate
Waves == {[W |-> 1000, sr |-> 16000], [W |-> 16000, sr |-> 16000],
          [W |-> 160000, sr |-> 16000]}

\* files of the folder dataset before the repeat factor is applied
MaxFiles == 3
\* rows of a manifest
MaxEntries == 2
\* repeat factors of the folder dataset
RepeatFactors == {1, 2}
\* files of the folder dataset when the expected shapes are varied
MaxShapeFiles == 2

(* --------------------------- Python helpers --------------------------- *)

Min(a, b) == IF a < b THEN a ELSE b
Max(a, b) == IF a > b THEN a ELSE b

\* sorted((a, b, c))[1]
Median3(a, b, c) == Max(Min(a, b), Min(Max(a, b), c))

\* list(range(a, b, s)) with an end one past the last frame (faulty variant)
PyRangeInclusive(a, b, s) ==
    IF a > b THEN << >> ELSE [k \in 1..(((b - a) \div s) + 1) |-> a + (k - 1) * s]

\* list(range(a, b, s)), s >= 1
PyRange(a, b, s) ==
    IF a >= b THEN << >> ELSE [k \in 1..(((b - a - 1) \div s) + 1) |-> a + (k - 1) * s]

\* seq[:n], n >= 0
Take(seq, n) == SubSeq(seq, 1, Min(n, Len(seq)))

\* np.tile(seq, reps)
RECURSIVE Tile(_, _)
Tile(seq, reps) == IF reps <= 0 THEN << >> ELSE seq \o Tile(seq, reps - 1)

\* length of the Python slice x[start:end] of a sequence of `size` items,
\* 0 <= start, 0 <= end
SliceLen(size, start, end) == Max(0, Min(end, size) - Min(start, size))

(* ----------------------- Frame Window Selector ------------------------ *)

\* get_video_frames(vr, start_idx, sample_rate, max_frames)
get_video_frames(vr, start_idx, sample_rate, max_frames) ==
    LET max_range == vr.len
        frame_number == Median3(0, start_idx, max_range)
    IN  Take(PyRange(frame_number, max_range, sample_rate), max_frames)

\* round((native_fps / fps) + 1e-5)
RoundRatio(fps100, fps) == (2 * fps100 + 100 * fps) \div (200 * fps)

\* every_nth_frame of VideoFolderDataset.get_frame_batch
every_nth_frame(vr, fps) == Min(vr.len, Max(1, RoundRatio(vr.fps100, fps)))

\* effective_length without the division by every_nth_frame (faulty variant)
effective_length_undivided(vr, fps) == vr.len

\* effective_length = len(vr) // every_nth_frame
effective_length(vr, fps) == vr.len \div every_nth_frame(vr, fps)

\* n_sample_frames after "if effective_length < n_sample_frames"
shrunk_frames(vr, fps, n_sample_frames) ==
    IF effective_length(vr, fps) < n_sample_frames
    THEN effective_length(vr, fps) ELSE n_sample_frames

\* upper end of random.randint(0, hi); randint raises when hi < 0
randint_hi(vr, fps, n_sample_frames) ==
    effective_length(vr, fps)
      - shrunk_frames(vr, fps, n_sample_frames) * every_nth_frame(vr, fps) - 5

\* the values effective_idx may take: a uniform draw, or int(native_fps)
\* when randint raised
effective_idx_choices(vr, fps, n_sample_frames) ==
    IF randint_hi(vr, fps, n_sample_frames) >= 0
    THEN 0..randint_hi(vr, fps, n_sample_frames)
    ELSE {vr.fps100 \div 100}

\* idxs of get_frame_batch for one drawn effective_idx
frame_batch_idxs(vr, fps, n_sample_frames, effective_idx) ==
    LET n == shrunk_frames(vr, fps, n_sample_frames)
        e == every_nth_frame(vr, fps)
        idxs == [k \in 1..n |-> e * (effective_idx + k - 1)]
    IN  IF Len(idxs) # n THEN Take(Tile(idxs, 10), n) ELSE idxs

\* vr.get_batch(idxs) raises on an index outside the video
get_batch_raises(vr, idxs) == \E k \in 1..Len(idxs) : idxs[k] < 0 \/ idxs[k] >= vr.len

(* --------------------------- Audio Aligner ---------------------------- *)

\* audio slice of process_video clipped to nothing past the tiled wave (faulty variant)
audio_slice_len_unclipped(wave, idxs) == (Len(idxs) * wave.sr) \div 24

\* length of audio[:, start:end] in process_video
audio_slice_len(wave, idxs) ==
    LET tiled == 10 * wave.W
        audio == Min(tiled, wave.sr * 10)
        start == (wave.sr * idxs[1]) \div 30
        end   == start + (Len(idxs) * wave.sr) \div 24
    IN  SliceLen(audio, start, end)

(* ------------------------- process_video ------------------------------ *)

\* process_video(...) with VideoFolderDataset.get_frame_batch, for one drawn
\* effective_idx: the frame window, whether vr.get_batch raised, and the
\* length of the returned audio slice (0 when nothing is returned)
process_video(vr, wave, fps, n_sample_frames, effective_idx) ==
    LET idxs == frame_batch_idxs(vr, fps, n_sample_frames, effective_idx)
        raised == get_batch_raises(vr, idxs)
    IN  [idxs   |-> idxs,
         raised |-> raised,
         path   |-> IF randint_hi(vr, fps, n_sample_frames) >= 0
                    THEN "random" ELSE "fallback",
         audio  |-> IF raised THEN 0 ELSE audio_slice_len(wave, idxs)]

(* ------------------------- states of rest ----------------------------- *)

NoItem == [index |-> -1, ytid |-> "", text_prompt |-> << >>, frames |-> 0, audio |-> 0]

FolderUnused ==
    [cfg |-> [n_sample_frames |-> 0, fps |-> 0, width |-> 0, height |-> 0],
     video_files |-> << >>, disk |-> << >>, valid_videos |-> {},
     pc |-> "unused", index |-> -1, requested |-> -1, failed |-> FALSE,
     valid_at_call |-> {}, item |-> NoItem]

NoWave == [W |-> 0, sr |-> 0]

SelIdle(vr, wave) ==
    [vr |-> vr, wave |-> wave, op |-> "none", n |-> 0, start_idx |-> 0,
     step |-> 0, fps |-> 0, idxs |-> << >>, path |-> "none",
     raised |-> FALSE, audio |-> 0]

SelUnused == SelIdle([len |-> 0, fps100 |-> 0], NoWave)

\* a window nobody has read yet
Unread == <<-1>>

JsonUnused ==
    [pc |-> "unused", manifest |-> [exists |-> FALSE, groups |-> << >>],
     train_data |-> [none |-> TRUE, rows |-> << >>],
     n_sample_frames |-> 0, sample_start_idx |-> 0, frame_step |-> 0,
     windows |-> << >>, result |-> "none", length |-> -1]

SingleUnused ==
    [pc |-> "unused", vr |-> [len |-> 0, fps100 |-> 0], n_sample_frames |-> 0,
     frame_step |-> 0, frames |-> << >>, index |-> 1, window |-> Unread,
     result |-> "none", length |-> -1]

ImageUnused ==
    [pc |-> "unused", dir |-> [exists |-> FALSE, files |-> {}, unreadable |-> {}],
     image_dir |-> << >>, single_img_prompt |-> << >>, fallback_prompt |-> << >>,
     op |-> "none", file_path |-> << >>, result |-> "none", length |-> -1,
     prompt |-> << >>]

CatalogUnused ==
    [pc |-> "unused",
     env |-> [csv_exists |-> FALSE, rows |-> {}, extra |-> << >>,
              blocklist |-> {}, video |-> {}, audio |-> {}],
     args |-> [labels |-> [none |-> TRUE, set |-> {}], data_set |-> "",
               repeat |-> 0, vggsound |-> FALSE],
     video_files |-> << >>, length |-> -1]

(* ------------------- sampler harness (pure functions) ----------------- *)

VideoReaders == [len : (1..MaxLen) \cup {LongLen}, fps100 : NativeFps100]

\* start offsets tried on a reader: around both ends of the video
StartOffsets(vr) ==
    ((-1)..(Min(vr.len, MaxLen) + 1)) \cup {vr.len - 1, vr.len, vr.len + 1}

InitSampler ==
    /\ \E vr \in VideoReaders : sel = SelIdle(vr, NoWave)
    /\ folder = FolderUnused
    /\ jsonDs = JsonUnused
    /\ single = SingleUnused
    /\ image = ImageUnused
    /\ catalog = CatalogUnused

\* one call of get_video_frames on a fresh reader
CallGetVideoFrames ==
    /\ sel.op = "none"
    /\ \E start_idx \in StartOffsets(sel.vr), s \in 1..MaxStep, n \in 1..MaxFrames :
         sel' = [sel EXCEPT !.op = "get_video_frames", !.n = n,
                            !.start_idx = start_idx, !.step = s,
                            !.idxs = get_video_frames(sel.vr, start_idx, s, n)]
    /\ UNCHANGED <<folder, jsonDs, single, image, catalog>>

\* one call of process_video with the rate-based get_frame_batch
CallProcessVideo ==
    /\ sel.op = "none"
    /\ \E wave \in Waves, fps \in TargetFps, n \in 1..MaxFrames :
         \E effective_idx \in effective_idx_choices(sel.vr, fps, n) :
           LET r == process_video(sel.vr, wave, fps, n, effective_idx)
           IN  sel' = [sel EXCEPT !.op = "process_video", !.n = n, !.fps = fps,
                                  !.wave = wave,
                                  !.start_idx = effective_idx,
                                  !.idxs = r.idxs, !.path = r.path,
                                  !.raised = r.raised, !.audio = r.audio]
    /\ UNCHANGED <<folder, jsonDs, single, image, catalog>>

NextSampler == CallGetVideoFrames \/ CallProcessVideo

SpecSampler == InitSampler /\ [][NextSampler]_vars

(* ------------------ VideoFolderDataset.__getitem__ -------------------- *)

\* what is on disk for one entry of video_files: the video, its wave file and
\* whether a caption sidecar <id>.txt exists
Media ==
    { [vr |-> [len |-> 30, fps100 |-> 3000], wave |-> [W |-> 160000, sr |-> 16000], txt |-> TRUE],
      [vr |-> [len |-> 30, fps100 |-> 3000], wave |-> [W |-> 1650, sr |-> 16000], txt |-> FALSE],
      [vr |-> [len |-> 10, fps100 |-> 3000], wave |-> [W |-> 160000, sr |-> 16000], txt |-> TRUE] }

\* constructor arguments: the defaults of __init__, and a configuration whose
\* expected shapes a decoded item can match
FolderConfigs ==
    { [n_sample_frames |-> 16, fps |-> 8, width |-> 256, height |-> 256],
      [n_sample_frames |-> 24, fps |-> 24, width |-> 384, height |-> 256] }

\* get_video_shape() without its leading frame count, as (height, width)
VideoShapeHeight == 256
VideoShapeWidth == 384
\* the sample rate get_audio_shape() assumes
AudioShapeRate == 16000

\* get_audio_shape()[1] = int(16000 * (n_sample_frames / fps))
get_audio_shape(cfg) == (AudioShapeRate * cfg.n_sample_frames) \div cfg.fps

\* __getitem__ asserting the video shape alone (faulty variant)
shapes_match_video_only(cfg, r) ==
    /\ Len(r.idxs) = cfg.n_sample_frames
    /\ cfg.height = VideoShapeHeight
    /\ cfg.width = VideoShapeWidth

\* the two asserts of __getitem__ on what process_video_wrapper returned
\* (use_bucketing = False: frames are decoded at height x width)
shapes_match(cfg, r) ==
    /\ Len(r.idxs) = cfg.n_sample_frames
    /\ cfg.height = VideoShapeHeight
    /\ cfg.width = VideoShapeWidth
    /\ r.audio = get_audio_shape(cfg)

\* the except handler draws from every index of the dataset (faulty variant)
retry_choices_any(d) == 0..(Len(d.video_files) - 1)

\* random.choice(list(self.valid_videos)): the indices it can return; it
\* raises IndexError on the empty list
retry_choices(d) == d.valid_videos

\* the returned dictionary built from the index the caller asked for (faulty variant)
folder_item_requested(d, index, r) ==
    [index  |-> d.requested,
     ytid   |-> d.video_files[d.requested + 1],
     text_prompt |-> IF d.disk[d.video_files[d.requested + 1]].txt
                     THEN <<"txt", d.video_files[d.requested + 1]>> ELSE <<"fallback">>,
     frames |-> Len(r.idxs),
     audio  |-> r.audio]

\* the dictionary __getitem__ returns, for the attempt r that passed
folder_item(d, index, r) ==
    [index  |-> index,
     ytid   |-> d.video_files[index + 1],
     text_prompt |-> IF d.disk[d.video_files[index + 1]].txt
                     THEN <<"txt", d.video_files[index + 1]>> ELSE <<"fallback">>,
     frames |-> Len(r.idxs),
     audio  |-> r.audio]

FileNames == <<"a", "b", "c", "d", "e">>

\* self.video_files = self.video_files * self.repeat
Repeat(files, repeat) == Tile(files, repeat)

InitFolder ==
    /\ sel = SelUnused
    /\ jsonDs = JsonUnused
    /\ single = SingleUnused
    /\ image = ImageUnused
    /\ catalog = CatalogUnused
    /\ \E cfg \in FolderConfigs, n \in 1..MaxFiles, repeat \in RepeatFactors :
         \E disk \in [{FileNames[k] : k \in 1..n} -> Media] :
           folder = [FolderUnused EXCEPT
                       !.cfg = cfg,
                       !.video_files = Repeat(SubSeq(FileNames, 1, n), repeat),
                       !.disk = disk,
                       !.pc = "idle"]

\* a caller asks for item `index`
FolderGetItem ==
    /\ folder.pc \in {"idle", "returned", "raised"}
    /\ \E index \in 0..(Len(folder.video_files) - 1) :
         folder' = [folder EXCEPT !.pc = "loop", !.index = index,
                                  !.requested = index, !.failed = FALSE,
                                  !.valid_at_call = folder.valid_videos,
                                  !.item = NoItem]
    /\ UNCHANGED <<sel, jsonDs, single, image, catalog>>

\* one iteration of "while True": the try body and, when it raised, the
\* except handler; a passing attempt leaves the loop and returns the item
FolderAttempt ==
    /\ folder.pc = "loop"
    /\ LET media == folder.disk[folder.video_files[folder.index + 1]]
           cfg == folder.cfg
       IN  \E effective_idx \in effective_idx_choices(media.vr, cfg.fps, cfg.n_sample_frames) :
             LET r == process_video(media.vr, media.wave, cfg.fps,
                                    cfg.n_sample_frames, effective_idx)
             IN  IF ~r.raised /\ shapes_match(cfg, r)
                 THEN folder' = [folder EXCEPT
                                   !.valid_videos = @ \cup {folder.index},
                                   !.pc = "returned",
                                   !.item = folder_item(folder, folder.index, r)]
                 ELSE IF retry_choices(folder) = {}
                 THEN folder' = [folder EXCEPT !.pc = "raised", !.failed = TRUE]
                 ELSE \E index \in retry_choices(folder) :
                        folder' = [folder EXCEPT !.index = index, !.failed = TRUE]
    /\ UNCHANGED <<sel, jsonDs, single, image, catalog>>

NextFolder == FolderGetItem \/ FolderAttempt

SpecFolder == InitFolder /\ [][NextFolder]_vars

(* ------------ VideoFolderDataset.__getitem__, shapes varied ------------ *)

\* further constructor arguments: the default n_sample_frames and fps at the
\* frame size get_video_shape() expects, and a target rate above 24
ShapeConfigs ==
    FolderConfigs \cup
    { [n_sample_frames |-> 16, fps |-> 8, width |-> 384, height |-> 256],
      [n_sample_frames |-> 24, fps |-> 48, width |-> 384, height |-> 256] }

\* further media: a 16 kHz wave file of 800 samples, half a second after
\* tiling; and a three-second video at 8 frames per second with its audio
ShapeMedia ==
    Media \cup
    { [vr |-> [len |-> 30, fps100 |-> 3000], wave |-> [W |-> 800, sr |-> 16000], txt |-> FALSE],
      [vr |-> [len |-> 24, fps100 |-> 800], wave |-> [W |-> 48000, sr |-> 16000], txt |-> TRUE] }

\* the dataset after construction, over ShapeConfigs and ShapeMedia
InitFolderShapes ==
    /\ sel = SelUnused
    /\ jsonDs = JsonUnused
    /\ single = SingleUnused
    /\ image = ImageUnused
    /\ catalog = CatalogUnused
    /\ \E cfg \in ShapeConfigs, n \in 1..MaxShapeFiles, repeat \in RepeatFactors :
         \E disk \in [{FileNames[k] : k \in 1..n} -> ShapeMedia] :
           folder = [FolderUnused EXCEPT
                       !.cfg = cfg,
                       !.video_files = Repeat(SubSeq(FileNames, 1, n), repeat),
                       !.disk = disk,
                       !.pc = "idle"]

SpecFolderShapes == InitFolderShapes /\ [][NextFolder]_vars

(* -------------------------- VideoJsonDataset --------------------------- *)

\* constructor defaults of VideoJsonDataset and SingleVideoDataset
DefaultSampleFrames == 4
DefaultSampleStartIdx == 1
DefaultFrameStep == 1

\* a clip descriptor of the manifest: its frame offset and whether it names a
\* clip file of its own (clip_path)
ClipDescriptors == [frame_index : 0..2, clip : BOOLEAN]

\* the video a group names has 8 frames, a clip file has 4
GroupVideo == [len |-> 8, fps100 |-> 3000]
ClipVideo == [len |-> 4, fps100 |-> 3000]

\* manifests with up to MaxEntries clip descriptors, as one group holding all
\* of them or as one group per descriptor; or no readable manifest at all
Manifests ==
    {[exists |-> FALSE, groups |-> << >>]}
    \cup {[exists |-> TRUE, groups |-> <<rows>>] :
            rows \in UNION {[1..k -> ClipDescriptors] : k \in 0..MaxEntries}}
    \cup {[exists |-> TRUE, groups |-> [g \in 1..Len(rows) |-> <<rows[g]>>]] :
            rows \in UNION {[1..k -> ClipDescriptors] : k \in 2..MaxEntries}}

\* build_json: the clip descriptors of every group, in order
RECURSIVE build_json(_)
build_json(groups) ==
    IF groups = << >> THEN << >> ELSE Head(groups) \o build_json(Tail(groups))

\* what __init__ stores in self.train_data: load_from_json returns the flat
\* list, or None (after its except branch) when the manifest cannot be read
load_from_json(manifest) ==
    IF manifest.exists
    THEN [none |-> FALSE, rows |-> build_json(manifest.groups)]
    ELSE [none |-> TRUE, rows |-> << >>]

\* the start offset get_frame_range uses in train_data_batch(index): a clip
\* entry leaves self.sample_start_idx as it is, any other entry overwrites it
json_start_idx(d, index) ==
    IF d.train_data.rows[index + 1].clip
    THEN d.sample_start_idx
    ELSE d.train_data.rows[index + 1].frame_index

\* the frame window train_data_batch(index) reads
json_window(d, index) ==
    get_video_frames(IF d.train_data.rows[index + 1].clip THEN ClipVideo ELSE GroupVideo,
                     json_start_idx(d, index), d.frame_step, d.n_sample_frames)

InitJson ==
    /\ sel = SelUnused
    /\ folder = FolderUnused
    /\ single = SingleUnused
    /\ image = ImageUnused
    /\ catalog = CatalogUnused
    /\ \E manifest \in Manifests :
         jsonDs = [JsonUnused EXCEPT !.pc = "new", !.manifest = manifest]

\* VideoJsonDataset(json_path = ...)
JsonConstruct ==
    /\ jsonDs.pc = "new"
    /\ LET td == load_from_json(jsonDs.manifest)
       IN  jsonDs' = [jsonDs EXCEPT
                        !.pc = "ready",
                        !.train_data = td,
                        !.n_sample_frames = DefaultSampleFrames,
                        !.sample_start_idx = DefaultSampleStartIdx,
                        !.frame_step = DefaultFrameStep,
                        !.windows = [k \in 1..Len(td.rows) |-> Unread],
                        !.result = "constructed"]
    /\ UNCHANGED <<sel, folder, single, image, catalog>>

\* len(dataset)
JsonLen ==
    /\ jsonDs.pc = "ready"
    /\ jsonDs' = [jsonDs EXCEPT
                    !.result = "len",
                    !.length = IF jsonDs.train_data.none THEN 0
                               ELSE Len(jsonDs.train_data.rows)]
    /\ UNCHANGED <<sel, folder, single, image, catalog>>

\* dataset[index].  train_data_batch updates sample_start_idx and
\* get_frame_batch reads the window; the call then ends in an exception, as
\* process_video unpacks get_frame_batch's result into (video, idxs) and
\* returns three values to a wrapper that takes two (TypeError on
\* None / 127.5 when train_data is None).
JsonGetItem ==
    /\ jsonDs.pc = "ready"
    /\ IF jsonDs.train_data.none
       THEN jsonDs' = [jsonDs EXCEPT !.result = "TypeError"]
       ELSE \E index \in 0..(Len(jsonDs.train_data.rows) - 1) :
              jsonDs' = [jsonDs EXCEPT
                           !.sample_start_idx = json_start_idx(jsonDs, index),
                           !.windows[index + 1] = json_window(jsonDs, index),
                           !.result = "error"]
    /\ UNCHANGED <<sel, folder, single, image, catalog>>

NextJson == JsonConstruct \/ JsonLen \/ JsonGetItem

SpecJson == InitJson /\ [][NextJson]_vars

(* ------------------------- SingleVideoDataset ------------------------- *)

\* seq without its element at Python position i
RemoveAt(seq, i) == SubSeq(seq, 1, i) \o SubSeq(seq, i + 2, Len(seq))

\* chunk(it, size) that stops at the first short tuple (faulty variant)
RECURSIVE chunk_full_only(_, _)
chunk_full_only(it, size) ==
    IF Len(it) < size THEN << >>
    ELSE <<SubSeq(it, 1, size)>> \o chunk_full_only(SubSeq(it, size + 1, Len(it)), size)

\* chunk(it, size): tuples of `size` items, the last one shorter, until the
\* iterator is exhausted
RECURSIVE chunk(_, _)
chunk(it, size) ==
    IF it = << >> THEN << >>
    ELSE <<Take(it, size)>> \o chunk(SubSeq(it, Min(size, Len(it)) + 1, Len(it)), size)

\* "del self.frames[i]" once for every frame number of `inner` above len(vr);
\* raised records the IndexError of deleting past the end
RECURSIVE delete_for(_, _, _, _)
delete_for(st, i, inner, L) ==
    IF inner = << >> \/ st.raised THEN st
    ELSE IF Head(inner) > L
         THEN IF i >= Len(st.frames)
              THEN [st EXCEPT !.raised = TRUE]
              ELSE delete_for([st EXCEPT !.frames = RemoveAt(@, i)], i, Tail(inner), L)
         ELSE delete_for(st, i, Tail(inner), L)

\* the enumerate loop of create_video_chunks from Python position i on
RECURSIVE delete_out_of_range(_, _, _)
delete_out_of_range(st, i, L) ==
    IF st.raised \/ i >= Len(st.frames) THEN st
    ELSE delete_out_of_range(delete_for(st, i, st.frames[i + 1], L), i + 1, L)

\* create_video_chunks()
create_video_chunks(vr, frame_step, n_sample_frames) ==
    LET vr_range == PyRange(1, vr.len, frame_step)
        frames == chunk(vr_range, n_sample_frames)
    IN  delete_out_of_range([frames |-> frames, raised |-> FALSE], 0, vr.len)

InitSingle ==
    /\ sel = SelUnused
    /\ folder = FolderUnused
    /\ jsonDs = JsonUnused
    /\ image = ImageUnused
    /\ catalog = CatalogUnused
    /\ \E L \in 1..MaxLen, s \in 1..MaxStep, n \in 1..MaxFrames :
         single = [SingleUnused EXCEPT
                     !.pc = "ready", !.vr = [len |-> L, fps100 |-> 3000],
                     !.n_sample_frames = n, !.frame_step = s]

\* len(dataset): rebuilds self.frames and returns their number
SingleLen ==
    /\ single.pc = "ready"
    /\ LET st == create_video_chunks(single.vr, single.frame_step, single.n_sample_frames)
       IN  single' = [single EXCEPT
                        !.frames = st.frames,
                        !.result = IF st.raised THEN "IndexError" ELSE "len",
                        !.length = IF st.raised THEN -1 ELSE Len(st.frames)]
    /\ UNCHANGED <<sel, folder, jsonDs, image, catalog>>

\* dataset[index]: self.index = index, then self.frames[self.index] is read;
\* IndexError when the chunk does not exist, else the exception process_video
\* ends in for a get_frame_batch that returns the frames alone
SingleGetItem ==
    /\ single.pc = "ready"
    /\ \E index \in 0..Len(single.frames) :
         single' = [single EXCEPT
                      !.index = index,
                      !.window = IF index < Len(single.frames)
                                 THEN single.frames[index + 1] ELSE Unread,
                      !.result = IF index < Len(single.frames)
                                 THEN "error" ELSE "IndexError"]
    /\ UNCHANGED <<sel, folder, jsonDs, image, catalog>>

NextSingle == SingleLen \/ SingleGetItem

SpecSingle == InitSingle /\ [][NextSingle]_vars

(* ------------------- get_text_prompt and ImageDataset ----------------- *)

\* A path is the sequence of its parts, the last one its extension
\* (<<"x", ".png">> is x.png); a string is the sequence of its characters.
\* A directory is [exists, files, unreadable]: the paths in it and those among
\* them whose content cannot be read or decoded.

\* self.img_types, and the default ext_types of get_text_prompt (a list)
img_types == <<".png", ".jpg", ".jpeg", ".bmp">>
default_ext_types == <<".mp4">>

\* the files a directory may hold, in sorted() order
DirUniverse ==
    << <<"v", ".mp4">>, <<"v", ".txt">>, <<"x", ".png">>, <<"x", ".txt">>,
       <<"y", ".jpeg">>, <<"y", ".txt">>, <<"z", ".gif">> >>

\* content of a caption file
read_caption_file(path) == <<"caption of", path[1]>>

\* str.replace(ext, '.txt') on a path
Replace(path, ext) == [k \in 1..Len(path) |-> IF path[k] = ext THEN ".txt" ELSE path[k]]

\* str.endswith(tuple)
EndsWith(path, exts) ==
    path # << >> /\ \E k \in 1..Len(exts) : path[Len(path)] = exts[k]

\* the "for ext in ext_types" loop of get_text_prompt: caption_file
RECURSIVE caption_file(_, _, _, _)
caption_file(file_path, exts, all_exts, dir) ==
    IF exts = << >> THEN << >>
    ELSE LET maybe_file == Replace(file_path, Head(exts))
         IN  IF EndsWith(maybe_file, all_exts)
             THEN caption_file(file_path, Tail(exts), all_exts, dir)
             ELSE IF maybe_file \in dir.files
             THEN maybe_file
             ELSE caption_file(file_path, Tail(exts), all_exts, dir)

\* "if len(text_prompt) > 1: return text_prompt"
explicit_prompt(text_prompt) == Len(text_prompt) > 1

\* get_text_prompt(text_prompt, fallback_prompt, file_path, ext_types,
\* use_caption); ext_is_tuple tells a tuple of extensions from a list, on
\* which str.endswith raises TypeError, caught by the bare except
get_text_prompt(text_prompt, fallback_prompt, file_path, ext_types, ext_is_tuple, use_caption, dir) ==
    IF ~use_caption THEN text_prompt
    ELSE IF explicit_prompt(text_prompt) THEN text_prompt
    ELSE IF ~ext_is_tuple /\ ext_types # << >> THEN fallback_prompt
    ELSE LET cf == caption_file(file_path, ext_types, ext_types, dir)
         IN  IF cf \in dir.files
             THEN IF cf \in dir.unreadable THEN fallback_prompt
                  ELSE read_caption_file(cf)
             ELSE fallback_prompt

\* sorted(...) of the paths of `files`
RECURSIVE SortedPaths(_, _)
SortedPaths(universe, files) ==
    IF universe = << >> THEN << >>
    ELSE (IF Head(universe) \in files THEN <<Head(universe)>> ELSE << >>)
         \o SortedPaths(Tail(universe), files)

\* get_images_list(image_dir); the empty path stands for ''
get_images_list(dir) ==
    IF dir.exists
    THEN SortedPaths(DirUniverse, {f \in dir.files : EndsWith(f, img_types)})
    ELSE << << >> >>

Prompts == {<< >>, <<"a">>, <<"a", "b">>}

Directories ==
    {[exists |-> FALSE, files |-> {}, unreadable |-> {}]}
    \cup {[exists |-> TRUE, files |-> fs, unreadable |-> un] :
            fs \in SUBSET {DirUniverse[k] : k \in 1..Len(DirUniverse)},
            un \in {{}, {<<"x", ".txt">>}}}

InitImage ==
    /\ sel = SelUnused
    /\ folder = FolderUnused
    /\ jsonDs = JsonUnused
    /\ single = SingleUnused
    /\ catalog = CatalogUnused
    /\ \E dir \in Directories :
         /\ dir.unreadable \subseteq dir.files
         /\ image = [ImageUnused EXCEPT !.pc = "new", !.dir = dir]

\* ImageDataset(image_dir = ..., single_img_prompt = ..., fallback_prompt = ...)
ImageConstruct ==
    /\ image.pc = "new"
    /\ \E prompt \in Prompts :
         image' = [image EXCEPT
                     !.pc = "ready",
                     !.image_dir = get_images_list(image.dir),
                     !.single_img_prompt = prompt,
                     !.fallback_prompt = <<"f">>,
                     !.op = "init", !.result = "ok"]
    /\ UNCHANGED <<sel, folder, jsonDs, single, catalog>>

\* len(dataset): os.path.exists(self.image_dir[0]) raises IndexError on the
\* empty list
ImageLen ==
    /\ image.pc = "ready"
    /\ image.op = "init"
    /\ image' = [image EXCEPT
                   !.op = "len",
                   !.result = IF image.image_dir = << >> THEN "IndexError" ELSE "ok",
                   !.length = IF image.image_dir = << >> THEN -1
                              ELSE IF image.image_dir[1] \in image.dir.files
                              THEN Len(image.image_dir) ELSE 0]
    /\ UNCHANGED <<sel, folder, jsonDs, single, catalog>>

\* dataset[index]: image_batch reads the image (which fails for the path ''
\* of a missing directory) and resolves its caption
ImageGetItem ==
    /\ image.pc = "ready"
    /\ image.op = "init"
    /\ image.image_dir # << >>
    /\ \E index \in 0..(Len(image.image_dir) - 1) :
         LET path == image.image_dir[index + 1]
         IN  IF path \notin image.dir.files
             THEN image' = [image EXCEPT !.op = "getitem", !.file_path = path,
                                         !.result = "error"]
             ELSE image' = [image EXCEPT
                              !.op = "getitem", !.file_path = path,
                              !.result = "item",
                              !.prompt = get_text_prompt(image.single_img_prompt,
                                           image.fallback_prompt, path, img_types,
                                           TRUE, TRUE, image.dir)]
    /\ UNCHANGED <<sel, folder, jsonDs, single, catalog>>

\* get_text_prompt called on a video with its default ext_types, with and
\* without use_caption
CallGetTextPrompt ==
    /\ image.pc = "ready"
    /\ image.op = "init"
    /\ <<"v", ".mp4">> \in image.dir.files
    /\ \E use_caption \in BOOLEAN :
         image' = [image EXCEPT
                     !.op = IF use_caption THEN "get_text_prompt"
                            ELSE "get_text_prompt, no caption",
                     !.file_path = <<"v", ".mp4">>,
                     !.result = "item",
                     !.prompt = get_text_prompt(image.single_img_prompt,
                                  image.fallback_prompt, <<"v", ".mp4">>,
                                  default_ext_types, FALSE, use_caption, image.dir)]
    /\ UNCHANGED <<sel, folder, jsonDs, single, catalog>>

NextImage == ImageConstruct \/ ImageLen \/ ImageGetItem \/ CallGetTextPrompt

SpecImage == InitImage /\ [][NextImage]_vars

(* -------------------- VideoFolderDataset.__init__ --------------------- *)

\* vid[:11], file_path[:-4] and the class_counts >= 120 of __init__
IdLen == 11
ExtLen == 4
MinClassCount == 120

\* an 11-character id made of one letter, and file names built on it
Ytid(c) == [k \in 1..11 |-> c]
Mp4 == <<".", "m", "p", "4">>
Wav == <<".", "w", "a", "v">>
Suffix == <<"_", "1">>

\* the file stems a directory listing may show
Stems == {Ytid("a"), Ytid("a") \o Suffix, Ytid("b")}
Ytids == {Ytid("a"), Ytid("b")}
Classes == {"k1", "k2"}

\* file_path[:-4]
StripExt(name) == SubSeq(name, 1, Len(name) - ExtLen)
\* vid[:11]
Prefix(stem) == SubSeq(stem, 1, Min(IdLen, Len(stem)))

\* The catalog is the set `rows` of its rows [ytid, set, class] whose id may
\* name a file, and extra[class]: the number of further rows of that class,
\* all of the configured split and on no block-list.
\* df[df["set"] == data_set]
filter_set(df, data_set) == [df EXCEPT !.rows = {r \in @ : r.set = data_set}]

\* df[df["class"].isin(labels)] when labels is not None
filter_labels(df, labels) ==
    IF labels.none THEN df
    ELSE [rows |-> {r \in df.rows : r.class \in labels.set},
          extra |-> [c \in Classes |-> IF c \in labels.set THEN df.extra[c] ELSE 0]]

\* df[~df['ytid'].isin(filtered_out)] for vggsound's train split
filter_unmatch(df, args, blocklist) ==
    IF args.vggsound /\ args.data_set = "train"
    THEN [df EXCEPT !.rows = {r \in @ : r.ytid \notin blocklist}]
    ELSE df

\* df['class'].value_counts()
class_counts(df) ==
    [c \in Classes |-> df.extra[c] + Cardinality({r \in df.rows : r.class = c})]

\* the minimum-count filter keeping only classes above the minimum (faulty variant)
filter_min_count_strict(df, args) ==
    IF args.vggsound
    THEN [rows |-> {r \in df.rows : class_counts(df)[r.class] > MinClassCount},
          extra |-> [c \in Classes |->
                       IF class_counts(df)[c] > MinClassCount THEN df.extra[c] ELSE 0]]
    ELSE df

\* df[df['class'].isin(class_counts.index[class_counts >= 120])] for vggsound
filter_min_count(df, args) ==
    IF args.vggsound
    THEN [rows |-> {r \in df.rows : class_counts(df)[r.class] >= MinClassCount},
          extra |-> [c \in Classes |->
                       IF class_counts(df)[c] >= MinClassCount THEN df.extra[c] ELSE 0]]
    ELSE df

\* self.df at the end of the filters of __init__
filtered_df(env, args) ==
    filter_min_count(
        filter_unmatch(
            filter_labels(filter_set([rows |-> env.rows, extra |-> env.extra],
                                     args.data_set),
                          args.labels),
            args, env.blocklist),
        args)

\* samples = videos & audios, from the two directory listings
samples(env) ==
    {StripExt(f) : f \in env.video} \cap {StripExt(f) : f \in env.audio}

\* prepare_dataset(samples): the samples whose 11-character prefix is a ytid of
\* self.df (the rows beyond `rows` name no file)
prepared(env, args) ==
    {vid \in samples(env) : Prefix(vid) \in {r.ytid : r \in filtered_df(env, args).rows}}

\* the orders list(samples) may iterate a set in
Orderings(S) ==
    {q \in [1..Cardinality(S) -> S] : \A i, j \in 1..Cardinality(S) : i # j => q[i] # q[j]}

CatalogRows ==
    {rs \in SUBSET [ytid : Ytids, set : {"train", "test"}, class : Classes] :
        \A r1, r2 \in rs : r1.ytid = r2.ytid => r1 = r2}

CatalogEnvs ==
    [csv_exists : {TRUE},
     rows : CatalogRows,
     extra : {[k1 |-> 0, k2 |-> 0], [k1 |-> 118, k2 |-> 0], [k1 |-> 119, k2 |-> 119]},
     blocklist : {{}, {Ytid("a")}},
     video : SUBSET {s \o Mp4 : s \in Stems},
     audio : {{s \o Wav : s \in Stems}, {Ytid("a") \o Wav},
              {Ytid("a") \o Suffix \o Wav, Ytid("b") \o Wav}}]

CatalogArgs ==
    [labels : {[none |-> TRUE, set |-> {}], [none |-> FALSE, set |-> {"k1"}]},
     data_set : {"train", "test"},
     repeat : RepeatFactors,
     vggsound : BOOLEAN]

InitCatalog ==
    /\ sel = SelUnused
    /\ folder = FolderUnused
    /\ jsonDs = JsonUnused
    /\ single = SingleUnused
    /\ image = ImageUnused
    /\ \E args \in CatalogArgs :
         \/ \E env \in CatalogEnvs :
              catalog = [CatalogUnused EXCEPT !.pc = "new", !.env = env, !.args = args]
         \/ catalog = [CatalogUnused EXCEPT !.pc = "new", !.args = args]

\* VideoFolderDataset(...): pd.read_csv raises when the catalog file is
\* missing; otherwise the filters, the join with the two directories and the
\* repeat factor
CatalogConstruct ==
    /\ catalog.pc = "new"
    /\ IF ~catalog.env.csv_exists
       THEN catalog' = [catalog EXCEPT !.pc = "FileNotFoundError"]
       ELSE \E order \in Orderings(prepared(catalog.env, catalog.args)) :
              catalog' = [catalog EXCEPT
                            !.pc = "constructed",
                            !.video_files = Repeat(order, catalog.args.repeat)]
    /\ UNCHANGED <<sel, folder, jsonDs, single, image>>

\* len(dataset)
CatalogLen ==
    /\ catalog.pc = "constructed"
    /\ catalog.length = -1
    /\ catalog' = [catalog EXCEPT !.length = Len(catalog.video_files)]
    /\ UNCHANGED <<sel, folder, jsonDs, single, image>>

NextCatalog == CatalogConstruct \/ CatalogLen

SpecCatalog == InitCatalog /\ [][NextCatalog]_vars

(* ------------------------------ claims -------------------------------- *)

StrictlyIncreasing(s) == \A k \in 1..(Len(s) - 1) : s[k] < s[k + 1]
InRange(s, L) == \A k \in 1..Len(s) : 0 <= s[k] /\ s[k] < L
Spaced(s, d) == \A k \in 1..(Len(s) - 1) : s[k + 1] - s[k] = d

Selected == sel.op \in {"get_video_frames", "process_video"}

\* C1 as stated: for n <= L the selector returns exactly n strictly
\* increasing indices, all inside [0, L).
C1_ExactlyN ==
    (Selected /\ sel.n <= sel.vr.len) =>
        /\ Len(sel.idxs) = sel.n
        /\ StrictlyIncreasing(sel.idxs)
        /\ InRange(sel.idxs, sel.vr.len)

\* C1 amended: the selector returns at most n strictly increasing indices.
\* Fixed offset: they lie in [0, L), are spaced by s, and there are n of
\* them exactly when clamp(start) + (n-1)*s < L.  Rate based: at least one
\* index, and all lie in [0, L) when the random start range is non-empty.
C1_AtMostN ==
    /\ Selected => (Len(sel.idxs) <= sel.n /\ StrictlyIncreasing(sel.idxs))
    /\ sel.op = "get_video_frames" =>
         LET first == IF sel.start_idx < 0 THEN 0
                      ELSE IF sel.start_idx > sel.vr.len THEN sel.vr.len
                      ELSE sel.start_idx
         IN  /\ InRange(sel.idxs, sel.vr.len)
             /\ Spaced(sel.idxs, sel.step)
             /\ Len(sel.idxs) > 0 => sel.idxs[1] = first
             /\ (Len(sel.idxs) = sel.n) <=> (first + (sel.n - 1) * sel.step < sel.vr.len)
             /\ (Len(sel.idxs) = 0) <=> (first = sel.vr.len)
    /\ sel.op = "process_video" =>
         /\ Len(sel.idxs) >= 1
         /\ sel.path = "random" => InRange(sel.idxs, sel.vr.len)

\* a fixed-offset call with n <= L that runs into the end of the video
C1_Witness ==
    /\ sel.op = "get_video_frames"
    /\ sel.n <= sel.vr.len
    /\ sel.n >= 2
    /\ Len(sel.idxs) = sel.n - 1

\* C4 as stated: the audio slice process_video returns has exactly
\* int(len(idxs)/24 * sr) samples, whatever the window start and the wave.
C4_LengthFormula ==
    (sel.op = "process_video" /\ ~sel.raised) =>
        sel.audio = (Len(sel.idxs) * sel.wave.sr) \div 24

\* C4 amended: the slice has int(len(idxs)/24 * sr) samples when it ends
\* inside the tiled, truncated wave (min(10*W, 10*sr) samples); otherwise it
\* is clipped to what is left after the start, which is shorter.
C4_LengthUnlessClipped ==
    (sel.op = "process_video" /\ ~sel.raised) =>
        LET avail == IF 10 * sel.wave.W < 10 * sel.wave.sr
                     THEN 10 * sel.wave.W ELSE 10 * sel.wave.sr
            start == (sel.wave.sr * sel.idxs[1]) \div 30
            want  == (Len(sel.idxs) * sel.wave.sr) \div 24
        IN  /\ start + want <= avail => sel.audio = want
            /\ start + want > avail =>
                 /\ sel.audio < want
                 /\ sel.audio = (IF start >= avail THEN 0 ELSE avail - start)

\* a one-second wave whose window starts so late that the slice is clipped
C4_Witness ==
    /\ sel.op = "process_video"
    /\ ~sel.raised
    /\ sel.wave.W >= sel.wave.sr
    /\ sel.audio > 0
    /\ sel.audio < (Len(sel.idxs) * sel.wave.sr) \div 24

\* the worked example of get_frame_batch: native_fps = 30, fps = 10, L = 300,
\* n = 24
Example300 ==
    LET vr == [len |-> 300, fps100 |-> 3000]
    IN  /\ every_nth_frame(vr, 10) = 3
        /\ effective_length(vr, 10) = 100
        /\ effective_idx_choices(vr, 10, 24) = 0..23
        /\ \A i \in effective_idx_choices(vr, 10, 24) :
             LET idxs == frame_batch_idxs(vr, 10, 24, i)
             IN  Len(idxs) = 24 /\ InRange(idxs, 300) /\ Spaced(idxs, 3)

\* C10: when the random start range of get_frame_batch is non-empty, every
\* index is inside [0, L), the indices are strictly increasing with spacing
\* every_nth, and get_batch does not raise; an out-of-range index needs the
\* fallback start int(native_fps).  For native_fps = 30, fps = 10, L = 300,
\* n = 24: every_nth = 3, usable length 100, 24 in-range indices spaced by 3.
C10_RandomWindowFits ==
    /\ (sel.op = "process_video" /\ sel.path = "random") =>
         LET ratio == (2 * sel.vr.fps100 + 100 * sel.fps) \div (200 * sel.fps)
             nth   == IF ratio < 1 THEN 1
                      ELSE IF ratio > sel.vr.len THEN sel.vr.len ELSE ratio
         IN  /\ InRange(sel.idxs, sel.vr.len)
             /\ StrictlyIncreasing(sel.idxs)
             /\ Spaced(sel.idxs, nth)
             /\ sel.idxs[1] = nth * sel.start_idx
             /\ ~sel.raised
    /\ (sel.op = "process_video" /\ ~InRange(sel.idxs, sel.vr.len)) =>
         sel.path = "fallback"
    /\ Example300

\* a random-start window of several frames with every_nth > 1
C10_Witness ==
    /\ sel.op = "process_video"
    /\ sel.path = "random"
    /\ Len(sel.idxs) >= 2
    /\ sel.idxs[2] - sel.idxs[1] >= 2

\* C2: when an attempt of __getitem__ failed and valid_videos was not empty,
\* nothing is raised, and the item returned is the item (ytid, caption) of an
\* index that was in valid_videos.
C2_RetryReturnsKnownGood ==
    /\ (folder.pc = "returned" /\ folder.failed) =>
         LET i == folder.item.index
             file == folder.video_files[i + 1]
         IN  /\ i \in folder.valid_at_call
             /\ folder.item.ytid = file
             /\ folder.item.text_prompt =
                  (IF folder.disk[file].txt THEN <<"txt", file>> ELSE <<"fallback">>)
             /\ folder.item.frames = folder.cfg.n_sample_frames
    /\ (folder.failed /\ folder.valid_at_call # {}) => folder.pc # "raised"

\* index 5 fails while valid_videos = {2}: the item of index 2 is returned
C2_Witness ==
    /\ folder.pc = "returned"
    /\ folder.failed
    /\ folder.requested = 5
    /\ folder.valid_at_call = {2}
    /\ folder.item.index = 2

\* C3 as stated: a failed attempt with valid_videos empty neither returns nor
\* raises; the call stays in the retry loop.
C3_StaysInLoop ==
    (folder.failed /\ folder.valid_at_call = {}) => folder.pc = "loop"

\* C3 amended: a failed attempt with valid_videos empty returns no item and
\* ends the call at once with the IndexError of random.choice on the empty
\* list; __getitem__ raises in no other case.
C3_RaisesOnEmpty ==
    /\ (folder.failed /\ folder.valid_at_call = {}) =>
         (folder.pc = "raised" /\ folder.item = NoItem)
    /\ folder.pc = "raised" =>
         (folder.failed /\ folder.valid_videos = {} /\ folder.index = folder.requested)

\* the first attempt of a call fails before any index was ever valid
C3_Witness ==
    /\ folder.pc = "raised"
    /\ folder.failed
    /\ folder.valid_videos = {}
    /\ folder.requested >= 0

\* C5: on one VideoJsonDataset, once an index has been read, every later read
\* of that index yields the same frame window, whatever was read in between.
C5_WindowStable ==
    [][\A k \in 1..Len(jsonDs.windows) :
         (jsonDs.pc = "ready" /\ jsonDs.windows[k] # Unread)
             => jsonDs'.windows[k] = jsonDs.windows[k]]_vars

\* flattening of a list of chunks
RECURSIVE Flatten(_)
Flatten(chunks) == IF chunks = << >> THEN << >> ELSE Head(chunks) \o Flatten(Tail(chunks))

\* the chunking of a 10-frame source, chunk size 4, step 1
Example10 ==
    create_video_chunks([len |-> 10, fps100 |-> 3000], 1, 4)
        = [frames |-> << <<1, 2, 3, 4>>, <<5, 6, 7, 8>>, <<9>> >>, raised |-> FALSE]

\* C6: create_video_chunks splits range(1, L, s) into consecutive chunks in
\* increasing order, each of n indices except possibly the last; every kept
\* index is a frame of the source, no chunk is truncated, and __len__ is the
\* number of chunks.  L = 10, n = 4, s = 1 gives [(1,2,3,4),(5,6,7,8),(9,)].
C6_Chunks ==
    /\ (single.pc = "ready" /\ single.result = "len") =>
         LET flat == Flatten(single.frames)
             L == single.vr.len
             s == single.frame_step
             n == single.n_sample_frames
             count == (L - 1 + s - 1) \div s
         IN  /\ Len(flat) = count
             /\ \A j \in 1..count : flat[j] = 1 + (j - 1) * s
             /\ \A c \in 1..Len(single.frames) :
                  /\ Len(single.frames[c]) >= 1
                  /\ Len(single.frames[c]) <= n
                  /\ c < Len(single.frames) => Len(single.frames[c]) = n
                  /\ InRange(single.frames[c], L)
             /\ single.length = Len(single.frames)
             /\ single.length = (count + n - 1) \div n
    /\ single.result # "IndexError" \/ single.index >= Len(single.frames)
    /\ Example10

\* a chunking whose last chunk is shorter than the others
C6_Witness ==
    /\ single.pc = "ready"
    /\ single.result = "len"
    /\ Len(single.frames) >= 3
    /\ Len(single.frames[Len(single.frames)]) < single.n_sample_frames
    /\ single.frame_step >= 2

\* the sidecar of a media file: same base name, extension .txt
Sidecar(path) == [k \in 1..Len(path) |-> IF k = Len(path) THEN ".txt" ELSE path[k]]

\* C7: with captioning requested, get_text_prompt returns the explicit prompt
\* when one (any non-empty string) was supplied, otherwise the content of the
\* sidecar file when it exists and can be read, otherwise the fallback.
C7_Priority ==
    (image.result = "item" /\ image.op \in {"getitem", "get_text_prompt"}) =>
        image.prompt =
            IF image.single_img_prompt # << >> THEN image.single_img_prompt
            ELSE IF /\ Sidecar(image.file_path) \in image.dir.files
                    /\ Sidecar(image.file_path) \notin image.dir.unreadable
                 THEN <<"caption of", image.file_path[1]>>
                 ELSE image.fallback_prompt

\* C9 (ImageDataset): with the image directory missing, or holding no
\* supported image file, construction succeeds and __len__ returns 0.
C9_EmptyLenZero ==
    /\ (image.pc = "ready" /\ ~image.dir.exists) => image.result # "IndexError"
    /\ (/\ image.op = "len"
        /\ \/ ~image.dir.exists
           \/ ~\E f \in image.dir.files :
                   f[Len(f)] \in {".png", ".jpg", ".jpeg", ".bmp"})
         => (image.result = "ok" /\ image.length = 0)

\* the catalog rows that survive the split, label-set, block-list and
\* minimum-count filters, stated row by row
Survives(r) ==
    LET env == catalog.env
        args == catalog.args
        passes(q) ==
            /\ q.set = args.data_set
            /\ args.labels.none \/ q.class \in args.labels.set
            /\ (args.vggsound /\ args.data_set = "train") => q.ytid \notin env.blocklist
        others == IF args.labels.none \/ r.class \in args.labels.set
                  THEN env.extra[r.class] ELSE 0
    IN  /\ r \in env.rows
        /\ passes(r)
        /\ args.vggsound =>
             others + Cardinality({q \in env.rows : q.class = r.class /\ passes(q)}) >= 120

\* the files the constructor must retain: present in both directories, with a
\* surviving catalog row for their 11-character id
Retained ==
    {s \in Stems :
        /\ s \o Mp4 \in catalog.env.video
        /\ s \o Wav \in catalog.env.audio
        /\ \E r \in catalog.env.rows :
             Survives(r) /\ r.ytid = [k \in 1..11 |-> s[k]]}

C11_TiledToN ==
    sel.op = "process_video" =>
        LET ratio  == (2 * sel.vr.fps100 + 100 * sel.fps) \div (200 * sel.fps)
            nth    == IF ratio < 1 THEN 1
                      ELSE IF ratio > sel.vr.len THEN sel.vr.len ELSE ratio
            usable == sel.vr.len \div nth
        IN  usable < sel.n =>
              /\ Len(sel.idxs) = sel.n
              /\ \A k \in 1..Len(sel.idxs) :
                   sel.idxs[k] = nth * (sel.start_idx + ((k - 1) % usable))

\* an attempt on `media` under `cfg` kept all n_sample_frames frames
FullWindow(cfg, media) ==
    LET ratio == (2 * media.vr.fps100 + 100 * cfg.fps) \div (200 * cfg.fps)
        nth   == IF ratio < 1 THEN 1
                 ELSE IF ratio > media.vr.len THEN media.vr.len ELSE ratio
    IN  media.vr.len \div nth >= cfg.n_sample_frames

\* int(n/24 * sr), the length of an audio slice of n frames that is not clipped
Unclipped(cfg, media) == (cfg.n_sample_frames * media.wave.sr) \div 24

\* int(16000 * n / fps), the audio length __getitem__ expects
Expected(cfg) == (16000 * cfg.n_sample_frames) \div cfg.fps

\* the media of the file an item was built from
ItemMedia == folder.disk[folder.item.ytid]

\* the constructor defaults n_sample_frames = 16, fps = 8 on 16 kHz audio
DefaultRates ==
    /\ folder.cfg.n_sample_frames = 16
    /\ folder.cfg.fps = 8
    /\ \A f \in DOMAIN folder.disk : folder.disk[f].wave.sr = 16000

\* C12 as stated: an attempt passes, an index enters valid_videos and an item
\* is returned, only if the frame count was not shrunk, the audio slice was
\* not clipped, and int(n/24 * sr) = int(16000 * n / fps); with the default
\* rates on 16 kHz audio valid_videos stays empty and no item is returned.
C12_PassNeedsUnclipped ==
    /\ folder.pc = "returned" =>
         /\ FullWindow(folder.cfg, ItemMedia)
         /\ folder.item.frames = folder.cfg.n_sample_frames
         /\ folder.item.audio = Unclipped(folder.cfg, ItemMedia)
         /\ Unclipped(folder.cfg, ItemMedia) = Expected(folder.cfg)
    /\ DefaultRates =>
         /\ Expected(folder.cfg) = 32000
         /\ \A f \in DOMAIN folder.disk : Unclipped(folder.cfg, folder.disk[f]) = 10666
         /\ folder.valid_videos = {}
         /\ folder.pc # "returned"

\* C12 amended: an attempt passes only if the frame count was not shrunk and
\* the returned audio slice, clipped or not, has int(16000 * n / fps)
\* samples, so int(n/24 * sr) >= int(16000 * n / fps); when the two are
\* equal the slice that passed was not clipped.  Every index in valid_videos
\* names such a file.  With the default rates on 16 kHz audio valid_videos
\* stays empty and no item is returned.
C12_PassNeedsExpectedLength ==
    /\ folder.pc = "returned" =>
         /\ FullWindow(folder.cfg, ItemMedia)
         /\ folder.item.frames = folder.cfg.n_sample_frames
         /\ folder.item.audio = Expected(folder.cfg)
         /\ folder.item.audio <= Unclipped(folder.cfg, ItemMedia)
         /\ folder.item.index \in folder.valid_videos
    /\ \A i \in folder.valid_videos :
         LET media == folder.disk[folder.video_files[i + 1]]
         IN  /\ FullWindow(folder.cfg, media)
             /\ Expected(folder.cfg) <= Unclipped(folder.cfg, media)
             /\ Expected(folder.cfg) <= 10 * media.wave.W
    /\ DefaultRates =>
         /\ Expected(folder.cfg) = 32000
         /\ \A f \in DOMAIN folder.disk : Unclipped(folder.cfg, folder.disk[f]) = 10666
         /\ folder.valid_videos = {}
         /\ folder.pc # "returned"

\* fps = 48 and a wave of 800 samples: the slice of 24 frames is clipped from
\* 16000 to the 8000 samples expected, and the item is returned
C12_Witness ==
    /\ folder.pc = "returned"
    /\ ~folder.failed
    /\ folder.cfg.fps = 48
    /\ folder.item.audio = 8000
    /\ folder.item.audio < Unclipped(folder.cfg, ItemMedia)
    /\ folder.valid_videos = {folder.requested}

====
